---- MODULE Spec2Model ----
(***************************************************************************)
(* claude-glasses: the notification dispatcher (NotificationManager), the  *)
(* state transition tracker (SessionStateTracker), the session registry    *)
(* (SessionManager.get_sessions) and the monitor's poll tick               *)
(* (SessionList._refresh).                                                 *)
(***************************************************************************)
EXTENDS Integers, Sequences, FiniteSets, TLC

\* ------------------------------------------------------------ bounds

\* Longest snapshot handed to SessionStateTracker.update by the component driver.
MaxSnapshotLen == 2

\* Last-activity timestamps of the log files range over 1..MaxTime.
MaxTime == 2

\* File ages tried around the busy threshold: BusyThreshold -+ AgeSpread seconds.
AgeSpread == 2

\* ------------------------------------------------------------ models.py

BUSY == "busy"

IDLE == "idle"

DONE == "done"

SessionStatus == {BUSY, IDLE, DONE}

\* Python's None (Optional fields, dict.get misses).
None == "None"

\* ------------------------------------------------------------ notifications.py

SESSION_COMPLETED == "completed"

NEEDS_INPUT == "needs_input"

NotificationEvent == {SESSION_COMPLETED, NEEDS_INPUT}

\* Session ids (log file stems) the environment can produce.
SessionIds == {"s1", "s2"}

\* The dedup keys (session_id, event).
Keys == SessionIds \X NotificationEvent

\* What test_notification hands to _send_notification.
TestMessage == <<"Claude Glasses", "Notifications are working!">>

Range(seq) == {seq[i] : i \in DOMAIN seq}

\* dict.get(k): the value, or None.
Get(d, k) == IF k \in DOMAIN d THEN d[k] ELSE None

\* d[k] = v
Put(d, k, v) == [x \in DOMAIN d \cup {k} |-> IF x = k THEN v ELSE d[x]]

\* del d[k]
Del(d, k) == [x \in DOMAIN d \ {k} |-> d[x]]

VARIABLES
    enabled,          \* NotificationManager.enabled
    notified,         \* NotificationManager._notified
    previous_states,  \* SessionStateTracker.previous_states
    needs_attention,  \* SessionStateTracker.needs_attention
    requested,        \* the notify calls of the last operation, in order
    sent,             \* the _send_notification calls of the last operation, in order
    attempts,         \* per key: _send_notification calls since the id was last cleared
    sessions,         \* SessionList.sessions, the list last handed to update
    phase,            \* per id: where it stands in alert / vanish / reappear
    op,               \* the last operation
    env,              \* what the last scan found: log files, debug files, process table
    all_sessions,     \* the list SessionManager.get_sessions returned last
    probe,            \* the inputs of a lone call of a function
    verdict,          \* its result
    running           \* the callbacks the event loop has started and not finished

vars == <<enabled, notified, previous_states, needs_attention,
          requested, sent, attempts, phase, op, sessions,
          env, all_sessions, probe, verdict, running>>

\* The dispatcher and tracker objects as one value the operators thread through.
State == [enabled |-> enabled, notified |-> notified,
          previous_states |-> previous_states, needs_attention |-> needs_attention,
          requested |-> <<>>, sent |-> <<>>, attempts |-> attempts]

\* NotificationManager._send_notification: one delivery attempt; every failure of
\* the notifier is swallowed, so the call always returns.
send_notification(st, what) ==
    [st EXCEPT !.sent = Append(@, what),
               !.attempts = [k \in Keys |-> IF k = what THEN @[k] + 1 ELSE @[k]]]

\* A notify that forgets to record the key.
notify_NoRecord(st, session, event) ==
    LET key == <<session.session_id, event>>
        called == [st EXCEPT !.requested = Append(@, key)]
    IN  IF ~st.enabled \/ key \in st.notified
        THEN called
        ELSE send_notification(called, key)

\* A notify that ignores the enabled flag.
notify_IgnoreEnabled(st, session, event) ==
    LET key == <<session.session_id, event>>
        called == [st EXCEPT !.requested = Append(@, key)]
    IN  IF key \in st.notified
        THEN called
        ELSE send_notification([called EXCEPT !.notified = @ \cup {key}], key)

\* NotificationManager.notify
notify(st, session, event) ==
    LET key == <<session.session_id, event>>
        called == [st EXCEPT !.requested = Append(@, key)]
    IN  IF ~st.enabled \/ key \in st.notified
        THEN called
        ELSE send_notification([called EXCEPT !.notified = @ \cup {key}], key)

\* A test_notification that goes through the checks of notify.
test_notification_Checked(st) ==
    IF ~st.enabled \/ TestMessage \in st.notified THEN st
    ELSE send_notification([st EXCEPT !.notified = @ \cup {TestMessage}], TestMessage)

\* NotificationManager.test_notification
test_notification(st) == send_notification(st, TestMessage)

\* A clear_for_session that keeps the dedup entries.
clear_for_session_Keep(st, session_id) ==
    [st EXCEPT !.attempts = [k \in Keys |-> IF k[1] = session_id THEN 0 ELSE @[k]]]

\* NotificationManager.clear_for_session
clear_for_session(st, session_id) ==
    [st EXCEPT !.notified = {k \in @ : k[1] # session_id},
               !.attempts = [k \in Keys |-> IF k[1] = session_id THEN 0 ELSE @[k]]]

\* NotificationManager.toggle
toggle(st) == [st EXCEPT !.enabled = ~@]

\* set.discard / set.add on needs_attention
discard(st, session_id) == [st EXCEPT !.needs_attention = @ \ {session_id}]

add(st, session_id) == [st EXCEPT !.needs_attention = @ \cup {session_id}]

\* A loop body that keeps the flag for the tick of the transition only.
update_session_FlagOneTick(st, session) ==
    LET sid == session.session_id
        prev_status == Get(st.previous_states, sid)
        st1 ==
          IF prev_status # None /\ prev_status # session.status
          THEN IF prev_status = BUSY
               THEN IF session.status = DONE
                    THEN discard(notify(st, session, SESSION_COMPLETED), sid)
                    ELSE IF session.status = IDLE
                    THEN add(notify(st, session, NEEDS_INPUT), sid)
                    ELSE st
               ELSE IF prev_status = IDLE /\ session.status = BUSY
                    THEN discard(st, sid)
                    ELSE st
          ELSE discard(st, sid)
    IN  [st1 EXCEPT !.previous_states = Put(@, sid, session.status)]

\* A loop body that flags a session only when its alert was delivered.
update_session_FlagOnDelivery(st, session) ==
    LET sid == session.session_id
        prev_status == Get(st.previous_states, sid)
        alerted == notify(st, session, NEEDS_INPUT)
        st1 ==
          IF prev_status # None /\ prev_status # session.status
          THEN IF prev_status = BUSY
               THEN IF session.status = DONE
                    THEN discard(notify(st, session, SESSION_COMPLETED), sid)
                    ELSE IF session.status = IDLE
                    THEN IF alerted.sent # st.sent THEN add(alerted, sid) ELSE alerted
                    ELSE st
               ELSE IF prev_status = IDLE /\ session.status = BUSY
                    THEN discard(st, sid)
                    ELSE st
          ELSE st
    IN  [st1 EXCEPT !.previous_states = Put(@, sid, session.status)]

\* SessionStateTracker.update, the body of `for session in sessions`.
update_session(st, session) ==
    LET sid == session.session_id
        prev_status == Get(st.previous_states, sid)
        st1 ==
          IF prev_status # None /\ prev_status # session.status
          THEN IF prev_status = BUSY
               THEN IF session.status = DONE
                    THEN discard(notify(st, session, SESSION_COMPLETED), sid)
                    ELSE IF session.status = IDLE
                    THEN add(notify(st, session, NEEDS_INPUT), sid)
                    ELSE st
               ELSE IF prev_status = IDLE /\ session.status = BUSY
                    THEN discard(st, sid)
                    ELSE st
          ELSE st
    IN  [st1 EXCEPT !.previous_states = Put(@, sid, session.status)]

RECURSIVE update_loop(_, _, _)
\* SessionStateTracker.update, `for session in sessions` from entry i on.
update_loop(st, snapshot, i) ==
    IF i > Len(snapshot) THEN st
    ELSE update_loop(update_session(st, snapshot[i]), snapshot, i + 1)

\* A clean-up that leaves the attention flag of a vanished session.
forget_KeepAttention(st, session_id) ==
    clear_for_session([st EXCEPT !.previous_states = Del(@, session_id)], session_id)

\* SessionStateTracker.update, the body of the clean-up loop for an absent id.
forget(st, session_id) ==
    discard(clear_for_session([st EXCEPT !.previous_states = Del(@, session_id)],
                              session_id),
            session_id)

RECURSIVE cleanup(_, _, _)
\* SessionStateTracker.update, `for session_id in list(self.previous_states.keys())`.
cleanup(st, keys, current_ids) ==
    IF keys = {} THEN st
    ELSE LET session_id == CHOOSE k \in keys : TRUE
         IN  cleanup(IF session_id \notin current_ids THEN forget(st, session_id) ELSE st,
                     keys \ {session_id}, current_ids)

\* SessionStateTracker.update
update(st, snapshot) ==
    LET current_ids == {snapshot[i].session_id : i \in DOMAIN snapshot}
        looped == update_loop(st, snapshot, 1)
    IN  cleanup(looped, DOMAIN looped.previous_states, current_ids)

\* SessionStateTracker.session_needs_attention
session_needs_attention(session_id) == session_id \in needs_attention

\* ------------------------------------------------------------ session_manager.py

\* hours * 3600 of get_active_sessions(hours=24)
MaxAgeSeconds == 86400

\* The 30.0 of _determine_activity_status
BusyThreshold == 30

\* pid: Optional[int] = None
NonePid == -1

\* No cwd: no record of the file carries one (None; "" is as false to Python).
NoPath == <<>>

\* os.path.getmtime(session.session_file): OSError, or now - mtime in seconds.
LogRaises == [raises |-> TRUE, age |-> 0]

LogAged(age) == [raises |-> FALSE, age |-> age]

\* The debug file: not there, OSError on exists() or stat(), or now - mtime.
DebugAbsent == [exists |-> FALSE, raises |-> FALSE, age |-> 0]

DebugRaises == [exists |-> TRUE, raises |-> TRUE, age |-> 0]

DebugAged(age) == [exists |-> TRUE, raises |-> FALSE, age |-> age]

\* Absolute paths, as their segments: /p/a, /p/b, /q/a.
PA == <<"p", "a">>

PB == <<"p", "b">>

QA == <<"q", "a">>

Paths == {PA, PB, QA}

\* path.split("/")[-1]
LastSegment(path) == path[Len(path)]

\* Process ids ps can report for a claude process.
Pids == {1, 2}

\* The *.jsonl files under ~/.claude/projects.
LogFiles == {"f1", "f2", "f3"}

\* What does not change about a log file: its stem, the decoded name of its
\* project directory, and the cwd its records carry (None: no record has one).
LogFile(f) ==
    CASE f = "f1" -> [stem |-> "s1", project_path |-> PA, cwd |-> NoPath]
      [] f = "f2" -> [stem |-> "s2", project_path |-> PA, cwd |-> PB]
      [] f = "f3" -> [stem |-> "s1", project_path |-> QA, cwd |-> NoPath]

\* SessionFileScanner._parse_session_file: the ClaudeSession of a log file with
\* at least one user or assistant record.
parse_session_file(f, file) ==
    LET info == LogFile(f)
    IN  [session_id |-> info.stem,
         project_path |-> info.project_path,
         project_name |-> IF info.cwd # NoPath THEN LastSegment(info.cwd)
                          ELSE LastSegment(info.project_path),
         session_file |-> f,
         pid |-> NonePid,
         status |-> DONE,
         last_activity |-> file.last_activity,
         last_message_type |-> file.last_message_type,
         cwd |-> IF info.cwd # NoPath THEN info.cwd ELSE info.project_path]

RECURSIVE get_active_sessions(_, _)
\* SessionFileScanner.get_active_sessions: the files in directory order, those
\* modified before the cutoff skipped.
get_active_sessions(e, i) ==
    IF i > Len(e.order) THEN <<>>
    ELSE LET f == e.order[i]
             rest == get_active_sessions(e, i + 1)
         IN  IF e.files[f].age > MaxAgeSeconds THEN rest
             ELSE <<parse_session_file(f, e.files[f])>> \o rest

\* A status inference that looks at the last record first.
determine_activity_status_TypeFirst(log, debug, last_message_type) ==
    IF last_message_type = "user" THEN BUSY
    ELSE IF last_message_type = "assistant" THEN IDLE
    ELSE BUSY

\* SessionManager._determine_activity_status, on what getmtime gives for the log
\* file, what exists() and stat() give for the debug file, and the type of the
\* last record.
determine_activity_status(log, debug, last_message_type) ==
    IF ~log.raises /\ log.age < BusyThreshold THEN BUSY
    ELSE IF debug.exists /\ ~debug.raises /\ debug.age < BusyThreshold THEN BUSY
    ELSE IF last_message_type = "user" THEN BUSY
    ELSE IDLE

RECURSIVE matched_pid(_, _, _)
\* get_sessions: `for proc_path, pid in running_processes.items()` from entry i
\* on, the first entry whose path is the session's cwd or project path.
matched_pid(running_processes, session, i) ==
    IF i > Len(running_processes) THEN NonePid
    ELSE LET proc_path == running_processes[i][1]
             pid == running_processes[i][2]
         IN  IF proc_path = session.cwd \/ proc_path = session.project_path THEN pid
             ELSE matched_pid(running_processes, session, i + 1)

\* A merge that matches the working directory only.
merge_CwdOnly(e, session) ==
    LET hits == {i \in DOMAIN e.running_processes : e.running_processes[i][1] = session.cwd}
    IN  IF hits # {}
        THEN [session EXCEPT
                !.pid = e.running_processes[CHOOSE i \in hits : TRUE][2],
                !.status = determine_activity_status(LogAged(e.files[session.session_file].age),
                                                     e.debug[session.session_id],
                                                     session.last_message_type)]
        ELSE [session EXCEPT !.status = DONE]

\* get_sessions: the body of `for session in sessions` (`if matched_pid:` is
\* Python truthiness: None and 0 are false).
merge(e, session) ==
    LET m == matched_pid(e.running_processes, session, 1)
    IN  IF m # NonePid /\ m # 0
        THEN [session EXCEPT
                !.pid = m,
                !.status = determine_activity_status(LogAged(e.files[session.session_file].age),
                                                     e.debug[session.session_id],
                                                     session.last_message_type)]
        ELSE [session EXCEPT !.status = DONE]

RECURSIVE insert_sorted(_, _)
\* list.sort(key=last_activity, reverse=True) is stable: a session goes behind
\* every session already placed whose last activity is not older.
insert_sorted(sorted, session) ==
    IF sorted = <<>> THEN <<session>>
    ELSE IF Head(sorted).last_activity >= session.last_activity
         THEN <<Head(sorted)>> \o insert_sorted(Tail(sorted), session)
         ELSE <<session>> \o sorted

\* A get_sessions that leaves the scanned order as it is.
sort_by_last_activity_Unsorted(list, i) == SubSeq(list, 1, i)

RECURSIVE sort_by_last_activity(_, _)
\* sessions.sort(key=lambda s: s.last_activity or datetime.min, reverse=True)
sort_by_last_activity(list, i) ==
    IF i = 0 THEN <<>>
    ELSE insert_sorted(sort_by_last_activity(list, i - 1), list[i])

RECURSIVE deduplicate_OnePool(_, _, _, _)
\* A deduplication that keeps one seen set for process ids and project names.
deduplicate_OnePool(list, i, seen_pids, seen_done_projects) ==
    IF i > Len(list) THEN <<>>
    ELSE LET session == list[i]
         IN  IF session.pid # NonePid
             THEN IF session.pid \notin seen_pids /\ session.project_name \notin seen_done_projects
                  THEN <<session>> \o deduplicate_OnePool(list, i + 1,
                                          seen_pids \cup {session.pid},
                                          seen_done_projects \cup {session.project_name})
                  ELSE deduplicate_OnePool(list, i + 1, seen_pids, seen_done_projects)
             ELSE IF session.project_name \notin seen_done_projects
                  THEN <<session>> \o deduplicate_OnePool(list, i + 1, seen_pids,
                                          seen_done_projects \cup {session.project_name})
                  ELSE deduplicate_OnePool(list, i + 1, seen_pids, seen_done_projects)

RECURSIVE deduplicate_sessions(_, _, _, _)
\* SessionManager._deduplicate_sessions, from entry i on.
deduplicate_sessions(list, i, seen_pids, seen_done_projects) ==
    IF i > Len(list) THEN <<>>
    ELSE LET session == list[i]
         IN  IF session.pid # NonePid
             THEN IF session.pid \notin seen_pids
                  THEN <<session>> \o deduplicate_sessions(list, i + 1,
                                          seen_pids \cup {session.pid}, seen_done_projects)
                  ELSE deduplicate_sessions(list, i + 1, seen_pids, seen_done_projects)
             ELSE IF session.project_name \notin seen_done_projects
                  THEN <<session>> \o deduplicate_sessions(list, i + 1, seen_pids,
                                          seen_done_projects \cup {session.project_name})
                  ELSE deduplicate_sessions(list, i + 1, seen_pids, seen_done_projects)

\* get_sessions up to the sort: scanned, merged with the process table, sorted.
merged_sessions(e) ==
    LET scanned == get_active_sessions(e, 1)
        merged == [i \in DOMAIN scanned |-> merge(e, scanned[i])]
    IN  sort_by_last_activity(merged, Len(merged))

\* SessionManager.get_sessions
get_sessions(e) == deduplicate_sessions(merged_sessions(e), 1, {}, {})

\* ------------------------------------------------------------ ProcessScanner

\* The most lines of ps output a scan is tried on.
MaxPsLines == 2

\* How a subprocess.check_output call ends: with the output, with
\* CalledProcessError (non-zero exit), or with the OSError of a command that
\* cannot be run (FileNotFoundError, PermissionError).
Returned == "returned"

CalledProcessError == "CalledProcessError"

CannotRun == "OSError"

\* A line of `ps aux`: how many columns it splits into, the text of column 2
\* (a number or not) and column 11.
PsLines == [columns : {10, 11}, pid_is_int : BOOLEAN, pid : Pids, cmd : {"claude", "node"}]

\* What `lsof -p pid` prints about the cwd: no cwd line, one whose last field
\* is not absolute, or one with an absolute path.
LsofNoCwd == [has_cwd |-> FALSE, absolute |-> FALSE, path |-> NoPath]

LsofRelative == [has_cwd |-> TRUE, absolute |-> FALSE, path |-> NoPath]

LsofCwd(path) == [has_cwd |-> TRUE, absolute |-> TRUE, path |-> path]

LsofOutcomes ==
    [ending : {Returned}, output : {LsofNoCwd, LsofRelative} \cup {LsofCwd(path) : path \in Paths}]
    \cup [ending : {CalledProcessError, CannotRun}, output : {LsofNoCwd}]

RECURSIVE claude_pids(_, _)
\* scan_claude_processes: the pids of the lines whose command is claude.
claude_pids(lines, i) ==
    IF i > Len(lines) THEN <<>>
    ELSE LET parts == lines[i]
             rest == claude_pids(lines, i + 1)
         IN  IF parts.columns >= 11 /\ parts.cmd = "claude" /\ parts.pid_is_int
             THEN <<parts.pid>> \o rest
             ELSE rest

\* result[path] = pid on a dict kept as its items in insertion order.
dict_set(result, path, pid) ==
    IF \E j \in DOMAIN result : result[j][1] = path
    THEN [j \in DOMAIN result |-> IF result[j][1] = path THEN <<path, pid>> ELSE result[j]]
    ELSE Append(result, <<path, pid>>)

RECURSIVE resolve(_, _, _, _)
\* scan_claude_processes: `for pid in claude_pids`; only CalledProcessError is
\* caught, any other exception of check_output leaves the method.
resolve(pids, lsof, i, result) ==
    IF i > Len(pids) THEN [raised |-> FALSE, result |-> result]
    ELSE LET pid == pids[i]
             out == lsof[pid]
         IN  IF out.ending = CalledProcessError
             THEN resolve(pids, lsof, i + 1, result)
             ELSE IF out.ending = CannotRun
             THEN [raised |-> TRUE, result |-> <<>>]
             ELSE IF out.output.has_cwd /\ out.output.absolute
             THEN resolve(pids, lsof, i + 1, dict_set(result, out.output.path, pid))
             ELSE resolve(pids, lsof, i + 1, result)

\* ProcessScanner.scan_claude_processes, on how `ps aux` ends, the lines it
\* prints and how `lsof -p` ends for each pid.
scan_claude_processes(ps, lsof) ==
    IF ps.ending = CalledProcessError THEN [raised |-> FALSE, result |-> <<>>]
    ELSE IF ps.ending = CannotRun THEN [raised |-> TRUE, result |-> <<>>]
    ELSE resolve(claude_pids(ps.lines, 1), lsof, 1, <<>>)

\* ------------------------------------------------------------ SessionFileScanner, line by line

\* The most lines of a log file a parse is tried on.
MaxLines == 2

\* The length of the long text a summary is tried on (longer than the 80 kept).
LongLen == 81

\* Texts are kept as the sequences of their characters.
TextDone == <<"D", "o", "n", "e", ".">>

TextSpaced == <<" ", "a", "\n", "b", " ">>

TextLong == [i \in 1..LongLen |-> "x"]

Texts == {TextDone, TextSpaced, TextLong}

\* A content block: a dict of type text with its text, or a dict of another type.
TextBlock(text) == [type |-> "text", text |-> text]

OtherBlock == [type |-> "tool_use", text |-> <<>>]

\* The "message" of a record: absent, not a dict (a string, null), a dict
\* whose content is null, or a dict with a list of content blocks.
MessageMissing == [shape |-> "missing", content |-> <<>>]

MessageNotDict == [shape |-> "not_dict", content |-> <<>>]

MessageContentNull == [shape |-> "content_null", content |-> <<>>]

MessageBlocks(content) == [shape |-> "blocks", content |-> content]

Messages ==
    {MessageMissing, MessageNotDict, MessageContentNull}
    \cup {MessageBlocks(c) : c \in {<<>>, <<TextBlock(TextDone)>>,
                                   <<OtherBlock, TextBlock(TextSpaced)>>,
                                   <<TextBlock(TextLong)>>}}

\* The "timestamp" of a record: absent, a number of epoch milliseconds, an
\* ISO-8601 string (its wall-clock reading in milliseconds), a string that is
\* no date, or a value of another type.
TsMissing == [shape |-> "missing", ms |-> 0]

TsNumber(ms) == [shape |-> "number", ms |-> ms]

TsIso(ms) == [shape |-> "iso", ms |-> ms]

TsBadString == [shape |-> "bad_string", ms |-> 0]

TsOther == [shape |-> "other", ms |-> 0]

Timestamps == {TsMissing, TsNumber(1000), TsNumber(5000), TsIso(3000), TsBadString, TsOther}

\* A line of a log file: not JSON, JSON that is no object (a list, a number, a
\* string, null), or an object with its type, timestamp and message.
LineGarbage == [json |-> "invalid", type |-> "", timestamp |-> TsMissing, message |-> MessageMissing]

LineNonObject == [json |-> "value", type |-> "", timestamp |-> TsMissing, message |-> MessageMissing]

Records == [json : {"object"}, type : {"user", "assistant", "summary"},
            timestamp : Timestamps, message : Messages]

Lines == {LineGarbage, LineNonObject} \cup Records

\* The exceptions that leave the scanner, and no exception.
NoError == "none"

AttributeError == "AttributeError"

TypeError == "TypeError"

\* No datetime (None).
NoTime == -1

\* SessionFileScanner._parse_timestamp, in milliseconds.
parse_timestamp(ts) ==
    IF ts.shape = "missing" THEN NoTime
    ELSE IF ts.shape = "number" THEN ts.ms
    ELSE IF ts.shape = "iso" THEN ts.ms
    ELSE NoTime

\* str[:n]
Prefix(text, n) == SubSeq(text, 1, IF Len(text) < n THEN Len(text) ELSE n)

\* str.replace("\n", " ")
ReplaceNewlines(text) == [i \in DOMAIN text |-> IF text[i] = "\n" THEN " " ELSE text[i]]

\* str.strip()
Strip(text) ==
    LET solid == {i \in DOMAIN text : text[i] # " "}
    IN  IF solid = {} THEN <<>>
        ELSE SubSeq(text, CHOOSE i \in solid : \A j \in solid : i <= j,
                          CHOOSE i \in solid : \A j \in solid : j <= i)

\* The body of _extract_summary's loop for a text block.
clean_FirstSentence(text) ==
    LET dots == {i \in DOMAIN text : text[i] = "."}
    IN  IF dots = {} THEN Strip(text)
        ELSE Strip(SubSeq(text, 1, (CHOOSE i \in dots : \A j \in dots : i <= j) - 1))

clean(text) ==
    LET cut == Strip(ReplaceNewlines(Prefix(text, 80)))
    IN  IF Len(cut) > 60 THEN Prefix(cut, 57) \o <<".", ".", ".">> ELSE cut

\* No summary (None).
NoSummary == <<"N", "o", "n", "e">>

RECURSIVE first_text(_, _)
\* _extract_summary: `for block in content`, the first block of type text.
first_text(content, i) ==
    IF i > Len(content) THEN [error |-> NoError, summary |-> NoSummary, found |-> FALSE]
    ELSE IF content[i].type = "text"
         THEN [error |-> NoError, summary |-> clean(content[i].text), found |-> TRUE]
         ELSE first_text(content, i + 1)

\* SessionFileScanner._extract_summary(last_msg)
extract_summary(msg) ==
    IF msg.message.shape = "not_dict"
    THEN [error |-> AttributeError, summary |-> NoSummary, found |-> FALSE]
    ELSE IF msg.message.shape = "content_null"
    THEN [error |-> TypeError, summary |-> NoSummary, found |-> FALSE]
    ELSE first_text(msg.message.content, 1)

RECURSIVE read(_, _, _)
\* _parse_session_file: `for line in f`; json.JSONDecodeError is caught per
\* line, msg.get on a value that is no dict raises AttributeError.
read(lines, i, msgs) ==
    IF i > Len(lines) THEN [error |-> NoError, msgs |-> msgs]
    ELSE IF lines[i].json = "invalid" THEN read(lines, i + 1, msgs)
    ELSE IF lines[i].json = "value" THEN [error |-> AttributeError, msgs |-> msgs]
    ELSE IF lines[i].type \in {"user", "assistant"}
    THEN read(lines, i + 1, Append(msgs, lines[i]))
    ELSE read(lines, i + 1, msgs)

\* No session (None), and the session fields a log's records decide.
NoSession == [status |-> None, start_time |-> NoTime, last_activity |-> NoTime,
              duration |-> 0, last_message_type |-> "unknown", summary |-> NoSummary]

\* SessionFileScanner._parse_session_file on a file that opens or not, its
\* lines and the clock: the exception that leaves it, or None, or the session
\* (times and duration in milliseconds).
parse_log(file, now) ==
    IF ~file.readable THEN [error |-> NoError, found |-> FALSE, session |-> NoSession]
    ELSE LET r == read(file.lines, 1, <<>>)
         IN  IF r.error # NoError THEN [error |-> r.error, found |-> FALSE, session |-> NoSession]
             ELSE IF r.msgs = <<>> THEN [error |-> NoError, found |-> FALSE, session |-> NoSession]
             ELSE LET first_msg == r.msgs[1]
                      last_msg == r.msgs[Len(r.msgs)]
                      t1 == parse_timestamp(first_msg.timestamp)
                      t2 == parse_timestamp(last_msg.timestamp)
                      start_time == IF t1 = NoTime THEN now ELSE t1
                      last_activity == IF t2 = NoTime THEN start_time ELSE t2
                      sum == extract_summary(last_msg)
                  IN  IF sum.error # NoError
                      THEN [error |-> sum.error, found |-> FALSE, session |-> NoSession]
                      ELSE [error |-> NoError, found |-> TRUE,
                            session |-> [status |-> DONE,
                                         start_time |-> start_time,
                                         last_activity |-> last_activity,
                                         duration |-> last_activity - start_time,
                                         last_message_type |-> last_msg.type,
                                         summary |-> sum.summary]]

RECURSIVE scan_logs(_, _, _, _)
\* SessionFileScanner.get_active_sessions over the files in directory order:
\* only OSError is caught around a file, any other exception leaves the scan
\* and with it SessionManager.get_sessions.
scan_logs(files, now, i, found) ==
    IF i > Len(files) THEN [error |-> NoError, sessions |-> found]
    ELSE LET r == parse_log(files[i], now)
         IN  IF r.error # NoError THEN [error |-> r.error, sessions |-> <<>>]
             ELSE IF r.found
             THEN scan_logs(files, now, i + 1,
                            Append(found, [file |-> i, session |-> r.session]))
             ELSE scan_logs(files, now, i + 1, found)

\* ------------------------------------------------------------ _decode_project_path

\* The longest encoded directory name a decoding is tried on, in tokens.
MaxNameLen == 8

\* Directory names and paths are sequences of tokens: the dash, the separator,
\* the word "projects" and another word.
Dash == "-"

Slash == "/"

Marker == "projects"

Words == {"u", Marker}

RECURSIVE Split(_, _)
\* str.split(sep): the parts between the separators (one empty part for "").
Split(str, sep) ==
    LET at == {i \in DOMAIN str : str[i] = sep}
    IN  IF at = {} THEN <<str>>
        ELSE LET k == CHOOSE i \in at : \A j \in at : i <= j
             IN  <<SubSeq(str, 1, k - 1)>> \o Split(SubSeq(str, k + 1, Len(str)), sep)

RECURSIVE Join(_, _)
\* sep.join(parts)
Join(parts, sep) ==
    IF parts = <<>> THEN <<>>
    ELSE IF Len(parts) = 1 THEN parts[1]
    ELSE parts[1] \o <<sep>> \o Join(Tail(parts), sep)

\* str.replace(old, new) for single tokens
Replace(str, old, new) == [i \in DOMAIN str |-> IF str[i] = old THEN new ELSE str[i]]

\* A decoding that takes every dash after the marker for a separator too.
decode_project_path_AllDashes(dir_name) ==
    IF dir_name = <<>> \/ dir_name[1] # Dash THEN dir_name
    ELSE <<Slash>> \o Replace(Tail(dir_name), Dash, Slash)

\* SessionFileScanner._decode_project_path
decode_project_path(dir_name) ==
    IF dir_name = <<>> \/ dir_name[1] # Dash THEN dir_name
    ELSE LET name == Tail(dir_name)
             parts == Split(name, Dash)
             found == {i \in DOMAIN parts : parts[i] = <<Marker>>}
         IN  IF found = {} THEN <<Slash>> \o Replace(name, Dash, Slash)
             ELSE LET k == CHOOSE i \in found : \A j \in found : i <= j
                      path_parts == SubSeq(parts, 1, k)
                      remaining_parts == SubSeq(parts, k + 1, Len(parts))
                  IN  IF remaining_parts # <<>>
                      THEN <<Slash>> \o Join(path_parts, Slash) \o <<Slash>>
                           \o Join(remaining_parts, Dash)
                      ELSE <<Slash>> \o Replace(name, Dash, Slash)

\* ------------------------------------------------------------ the environment of a scan

LogAges == {BusyThreshold - 1, BusyThreshold, MaxAgeSeconds + 1}

FileStates == [age : LogAges, last_message_type : {"user", "assistant"},
               last_activity : 1..MaxTime]

\* ProcessScanner.scan_claude_processes: a dict path -> pid in insertion order;
\* a process has one working directory, a dict one entry per path.
ProcessTables ==
    {<<>>}
    \cup {<< <<path, pid>> >> : path \in Paths, pid \in Pids}
    \cup {t \in {<< <<p1, i1>>, <<p2, i2>> >> :
                      p1 \in Paths, p2 \in Paths, i1 \in Pids, i2 \in Pids} :
             t[1][1] # t[2][1] /\ t[1][2] # t[2][2]}

\* iterdir() and glob() give no order; f1 and f2 lie in one project directory.
ScanOrders == {<<"f1", "f2", "f3">>, <<"f2", "f1", "f3">>,
               <<"f3", "f1", "f2">>, <<"f3", "f2", "f1">>}

NoDebugFiles == [sid \in SessionIds |-> DebugAbsent]

\* Before any scan: no log file young enough, no process.
NoEnv == [files |-> [f \in LogFiles |->
                        [age |-> MaxAgeSeconds + 1, last_message_type |-> "user",
                         last_activity |-> 1]],
          debug |-> NoDebugFiles,
          running_processes |-> <<>>,
          order |-> <<"f1", "f2", "f3">>]

\* The environments one get_sessions call is tried on.
RegistryEnvs ==
    [files : [LogFiles -> FileStates],
     debug : {NoDebugFiles},
     running_processes : ProcessTables,
     order : ScanOrders]

\* The environments the monitor's ticks see: f2 aged out, equal timestamps.
MonitorEnvs ==
    {e \in [files : [LogFiles -> [age : LogAges, last_message_type : {"user", "assistant"},
                                  last_activity : {1}]],
            debug : {NoDebugFiles},
            running_processes : ProcessTables,
            order : {<<"f1", "f2", "f3">>}] :
        /\ e.files["f2"] = NoEnv.files["f2"]
        /\ \A i \in DOMAIN e.running_processes : e.running_processes[i][1] # PB}

AgeValues == (BusyThreshold - AgeSpread)..(BusyThreshold + AgeSpread)

\* The inputs a lone _determine_activity_status call is tried on.
Probes ==
    [log : {LogAged(a) : a \in AgeValues} \cup {LogRaises},
     debug : {DebugAged(a) : a \in AgeValues} \cup {DebugAbsent, DebugRaises},
     last_message_type : {"user", "assistant"}]

NoProbe == [log |-> LogRaises, debug |-> DebugAbsent, last_message_type |-> "user"]

\* ------------------------------------------------------------ history of an id

\* The statuses a snapshot holds for an id.
StatusesOf(snapshot, sid) ==
    {snapshot[i].status : i \in {j \in DOMAIN snapshot : snapshot[j].session_id = sid}}

\* The status of the first entry a snapshot holds for an id, or None.
FirstStatus(snapshot, sid) ==
    LET at == {j \in DOMAIN snapshot : snapshot[j].session_id = sid}
    IN  IF at = {} THEN None
        ELSE snapshot[CHOOSE j \in at : \A k \in at : j <= k].status

\* The status recorded for entry i's id when update reaches entry i.
PrevAt(before, snapshot, i) ==
    LET earlier == {j \in 1..(i - 1) : snapshot[j].session_id = snapshot[i].session_id}
    IN  IF earlier = {} THEN Get(before, snapshot[i].session_id)
        ELSE snapshot[CHOOSE j \in earlier : \A k \in earlier : k <= j].status

\* Where an id stands after an update: "alerted" once NEEDS_INPUT was delivered
\* for it, "forgotten" once it was then absent from a snapshot, "back" once it
\* then reappeared BUSY, "realerted" when NEEDS_INPUT is delivered from "back".
PhaseAfter(ph, snapshot, delivered, sid) ==
    IF <<sid, NEEDS_INPUT>> \in Range(delivered)
    THEN IF ph = "back" THEN "realerted" ELSE "alerted"
    ELSE IF StatusesOf(snapshot, sid) = {}
    THEN IF ph \in {"alerted", "realerted", "forgotten", "back"} THEN "forgotten" ELSE "fresh"
    ELSE IF ph \in {"forgotten", "back"}
    THEN IF StatusesOf(snapshot, sid) = {BUSY} THEN "back" ELSE "fresh"
    ELSE ph

\* ------------------------------------------------------------ the components driven directly

SessionEntries == [session_id : SessionIds, status : SessionStatus]

RECURSIVE SeqsUpTo(_, _)
SeqsUpTo(S, n) ==
    IF n = 0 THEN {<<>>}
    ELSE LET shorter == SeqsUpTo(S, n - 1)
         IN  shorter \cup {Append(q, x) : q \in {r \in shorter : Len(r) = n - 1}, x \in S}

Snapshots == SeqsUpTo(SessionEntries, MaxSnapshotLen)

\* NotificationManager(), SessionStateTracker(notification_manager), SessionList(...)
Constructed ==
    /\ enabled = TRUE
    /\ notified = {}
    /\ previous_states = << >>
    /\ needs_attention = {}
    /\ requested = <<>>
    /\ sent = <<>>
    /\ attempts = [k \in Keys |-> 0]
    /\ sessions = <<>>
    /\ phase = [sid \in SessionIds |-> "fresh"]
    /\ op = "init"
    /\ running = <<>>

\* ClaudeGlassesApp.__init__
Init ==
    /\ Constructed
    /\ env = NoEnv
    /\ all_sessions = <<>>
    /\ probe = NoProbe
    /\ verdict = None

Adopt(st) ==
    /\ enabled' = st.enabled
    /\ notified' = st.notified
    /\ previous_states' = st.previous_states
    /\ needs_attention' = st.needs_attention
    /\ requested' = st.requested
    /\ sent' = st.sent
    /\ attempts' = st.attempts

\* state_tracker.update(snapshot), as SessionList._refresh calls it
Update(snapshot) ==
    /\ sessions' = snapshot
    /\ Adopt(update(State, snapshot))
    /\ phase' = [sid \in SessionIds |-> PhaseAfter(phase[sid], snapshot, sent', sid)]
    /\ op' = "update"
    /\ UNCHANGED <<env, all_sessions, probe, verdict, running>>

\* ClaudeGlassesApp.action_toggle_notif
Toggle ==
    /\ Adopt(toggle(State))
    /\ phase' = [sid \in SessionIds |-> "fresh"]
    /\ op' = "toggle"
    /\ UNCHANGED <<sessions, env, all_sessions, probe, verdict, running>>

\* ClaudeGlassesApp.action_test_notif
TestNotif ==
    /\ Adopt(test_notification(State))
    /\ op' = "test"
    /\ UNCHANGED <<phase, sessions, env, all_sessions, probe, verdict, running>>

\* notification_manager.notify(session, event) called from outside the tracker
Notify(session, event) ==
    /\ Adopt(notify(State, session, event))
    /\ phase' = [sid \in SessionIds |->
                    IF <<sid, NEEDS_INPUT>> \in Range(sent') THEN "alerted" ELSE phase[sid]]
    /\ op' = "notify"
    /\ UNCHANGED <<sessions, env, all_sessions, probe, verdict, running>>

Next ==
    \/ \E snapshot \in Snapshots : Update(snapshot)
    \/ Toggle
    \/ TestNotif

Spec == Init /\ [][Next]_vars

NextAPI ==
    \/ \E snapshot \in Snapshots : Update(snapshot)
    \/ Toggle
    \/ TestNotif
    \/ \E session \in SessionEntries, event \in NotificationEvent : Notify(session, event)

SpecAPI == Init /\ [][NextAPI]_vars

\* ------------------------------------------------------------ the running monitor

\* SessionList._refresh, on the environment the scan finds: get_sessions, the
\* DONE sessions dropped, state_tracker.update on what is left. The 2-second
\* timer, on_mount and the refresh key all run it.
Refresh(e) ==
    /\ env' = e
    /\ all_sessions' = get_sessions(e)
    /\ sessions' = SelectSeq(all_sessions', LAMBDA s : s.status # DONE)
    /\ Adopt(update(State, sessions'))
    /\ phase' = [sid \in SessionIds |-> PhaseAfter(phase[sid], sessions', sent', sid)]
    /\ op' = "refresh"
    /\ UNCHANGED <<probe, verdict, running>>

NextMonitor ==
    \/ \E e \in MonitorEnvs : Refresh(e)
    \/ Toggle
    \/ TestNotif

SpecMonitor == Init /\ [][NextMonitor]_vars

\* ------------------------------------------------------------ delivery by the notifier

\* The longest snapshot an update between deliveries is tried on.
MaxDeliverSnapshotLen == 1

\* How a subprocess.run(..., capture_output=True, timeout=5) of a notifier
\* command ends: exit status 0, a non-zero exit status (the OS rejects the
\* notification; run does not check it), FileNotFoundError (the command is not
\* installed) or TimeoutExpired.
RunEndings == {"exit0", "exit1", "FileNotFoundError", "TimeoutExpired"}

\* What the two notifier commands would do when run.
Notifiers == [terminal_notifier : RunEndings, osascript : RunEndings]

\* No delivery attempted yet.
NoDelivery == [attempted |-> FALSE, what |-> TestMessage, raised |-> FALSE,
               delivered |-> FALSE, ran |-> <<>>]

\* A _send_notification whose fallback lets the exceptions of osascript out.
run_notifier_FallbackUnguarded(notifier, what) ==
    IF notifier.terminal_notifier \in {"exit0", "exit1"}
    THEN [attempted |-> TRUE, what |-> what, raised |-> FALSE,
          delivered |-> notifier.terminal_notifier = "exit0",
          ran |-> <<"terminal-notifier">>]
    ELSE IF notifier.terminal_notifier = "FileNotFoundError"
    THEN [attempted |-> TRUE, what |-> what,
          raised |-> notifier.osascript \notin {"exit0", "exit1"},
          delivered |-> notifier.osascript = "exit0",
          ran |-> <<"terminal-notifier", "osascript">>]
    ELSE [attempted |-> TRUE, what |-> what, raised |-> FALSE, delivered |-> FALSE,
          ran |-> <<"terminal-notifier">>]

\* NotificationManager._send_notification, on what the notifier commands do:
\* terminal-notifier first, osascript when it is not installed, every other
\* exception of either passed over.
run_notifier(notifier, what) ==
    IF notifier.terminal_notifier \in {"exit0", "exit1"}
    THEN [attempted |-> TRUE, what |-> what, raised |-> FALSE,
          delivered |-> notifier.terminal_notifier = "exit0",
          ran |-> <<"terminal-notifier">>]
    ELSE IF notifier.terminal_notifier = "FileNotFoundError"
    THEN [attempted |-> TRUE, what |-> what, raised |-> FALSE,
          delivered |-> notifier.osascript = "exit0",
          ran |-> <<"terminal-notifier", "osascript">>]
    ELSE [attempted |-> TRUE, what |-> what, raised |-> FALSE, delivered |-> FALSE,
          ran |-> <<"terminal-notifier">>]

InitDeliver ==
    /\ Constructed
    /\ env = NoEnv
    /\ all_sessions = <<>>
    /\ probe \in Notifiers
    /\ verdict = NoDelivery

\* notification_manager.notify(session, event) on a machine whose notifier
\* commands do what probe says: the key is recorded before the attempt, so the
\* state after the call is the same whether the attempt returns or raises;
\* verdict keeps the result of the last attempt.
DeliverNotify(session, event) ==
    /\ Adopt(notify(State, session, event))
    /\ phase' = [sid \in SessionIds |->
                    IF <<sid, NEEDS_INPUT>> \in Range(sent') THEN "alerted" ELSE phase[sid]]
    /\ verdict' = IF sent' # <<>> THEN run_notifier(probe, sent'[1]) ELSE verdict
    /\ op' = "notify"
    /\ UNCHANGED <<sessions, env, all_sessions, probe, running>>

NextDeliver ==
    \/ \E session \in SessionEntries, event \in NotificationEvent :
           DeliverNotify(session, event)
    \/ \E snapshot \in SeqsUpTo(SessionEntries, MaxDeliverSnapshotLen) : Update(snapshot)
    \/ Toggle

SpecDeliver == InitDeliver /\ [][NextDeliver]_vars

\* ------------------------------------------------------------ the event loop

\* Whether SessionList._refresh gives the event loop back between get_sessions
\* and state_tracker.update. The method is a plain def without an await.
refresh_awaits_Yielding == TRUE

refresh_awaits == FALSE

\* The event loop takes the next callback (a timer, a key binding, a repaint)
\* when every callback it has started has finished or is suspended in an await.
LoopFree == \A i \in DOMAIN running : running[i].awaits

\* SessionList._refresh up to the return of get_sessions, started by the
\* 2-second timer, by on_mount or by action_refresh.
RefreshScan(e) ==
    /\ LoopFree
    /\ env' = e
    /\ all_sessions' = get_sessions(e)
    /\ running' = Append(running, [handler |-> "_refresh", awaits |-> refresh_awaits])
    /\ op' = "get_sessions"
    /\ UNCHANGED <<enabled, notified, previous_states, needs_attention, requested, sent,
                   attempts, phase, sessions, probe, verdict>>

\* The rest of the pass that was started last and has not finished: the DONE
\* sessions dropped, state_tracker.update on what is left (a later pass that
\* overlapped it may have replaced all_sessions).
RefreshUpdate ==
    /\ running # <<>>
    /\ sessions' = SelectSeq(all_sessions, LAMBDA s : s.status # DONE)
    /\ Adopt(update(State, sessions'))
    /\ phase' = [sid \in SessionIds |-> PhaseAfter(phase[sid], sessions', sent', sid)]
    /\ running' = SubSeq(running, 1, Len(running) - 1)
    /\ op' = "refresh"
    /\ UNCHANGED <<env, all_sessions, probe, verdict>>

\* ClaudeGlassesApp.action_toggle_notif as a callback of the loop
LoopToggle == LoopFree /\ Toggle

\* ClaudeGlassesApp.action_test_notif as a callback of the loop
LoopTestNotif == LoopFree /\ TestNotif

\* SessionList.render: reads enabled, sessions and the attention flags.
Render ==
    /\ LoopFree
    /\ op' = "render"
    /\ UNCHANGED <<enabled, notified, previous_states, needs_attention, requested, sent,
                   attempts, phase, sessions, env, all_sessions, probe, verdict, running>>

NextLoop ==
    \/ \E e \in MonitorEnvs : RefreshScan(e)
    \/ RefreshUpdate
    \/ LoopToggle
    \/ LoopTestNotif
    \/ Render

SpecLoop == Init /\ [][NextLoop]_vars

\* ------------------------------------------------------------ one get_sessions call

InitRegistry ==
    /\ Constructed
    /\ env \in RegistryEnvs
    /\ all_sessions = <<>>
    /\ probe = NoProbe
    /\ verdict = None

\* session_manager.get_sessions()
GetSessions ==
    /\ op = "init"
    /\ all_sessions' = get_sessions(env)
    /\ op' = "get_sessions"
    /\ UNCHANGED <<enabled, notified, previous_states, needs_attention, requested, sent,
                   attempts, phase, sessions, env, probe, verdict, running>>

NextRegistry == GetSessions

SpecRegistry == InitRegistry /\ [][NextRegistry]_vars

\* ------------------------------------------------------------ one process scan

\* The process tables and lsof answers one scan is tried on.
ScanProbes ==
    [ps : [ending : {Returned}, lines : SeqsUpTo(PsLines, MaxPsLines)]
          \cup [ending : {CalledProcessError, CannotRun}, lines : {<<>>}],
     lsof : [Pids -> LsofOutcomes]]

InitScan ==
    /\ Constructed
    /\ env = NoEnv
    /\ all_sessions = <<>>
    /\ probe \in ScanProbes
    /\ verdict = None

\* self.process_scanner.scan_claude_processes()
ScanProcesses ==
    /\ op = "init"
    /\ verdict' = scan_claude_processes(probe.ps, probe.lsof)
    /\ op' = "scan_claude_processes"
    /\ UNCHANGED <<enabled, notified, previous_states, needs_attention, requested, sent,
                   attempts, phase, sessions, env, all_sessions, probe, running>>

NextScan == ScanProcesses

SpecScan == InitScan /\ [][NextScan]_vars

\* ------------------------------------------------------------ one scan of the log directory

\* The clock of a scan, in milliseconds.
NowMs == 9000

\* A log file: whether open() succeeds, and its lines.
Unreadable == [readable |-> FALSE, lines |-> <<>>]

LogContents(max_lines) ==
    {Unreadable} \cup [readable : {TRUE}, lines : SeqsUpTo(Lines, max_lines)]

\* The file of two records: a user record at 1000 and the assistant's "Done."
\* at 5000.
TwoRecordLog ==
    [readable |-> TRUE,
     lines |-> <<[json |-> "object", type |-> "user", timestamp |-> TsNumber(1000),
                  message |-> MessageMissing],
                 [json |-> "object", type |-> "assistant", timestamp |-> TsNumber(5000),
                  message |-> MessageBlocks(<<TextBlock(TextDone)>>)]>>]

\* A file with one well-formed record.
OneRecordLog ==
    [readable |-> TRUE,
     lines |-> <<[json |-> "object", type |-> "user", timestamp |-> TsIso(3000),
                  message |-> MessageBlocks(<<>>)]>>]

\* The directories a scan is tried on: any log beside a well-formed one, in
\* either order.
LogDirs(max_lines) ==
    {<<a, b>> : a \in LogContents(max_lines), b \in {TwoRecordLog, OneRecordLog}}
    \cup {<<b, a>> : a \in LogContents(max_lines), b \in {TwoRecordLog, OneRecordLog}}

InitParse ==
    /\ Constructed
    /\ env = NoEnv
    /\ all_sessions = <<>>
    /\ probe \in LogDirs(MaxLines)
    /\ verdict = None

\* self.file_scanner.get_active_sessions() inside get_sessions
ScanLogs ==
    /\ op = "init"
    /\ verdict' = scan_logs(probe, NowMs, 1, <<>>)
    /\ op' = "get_active_sessions"
    /\ UNCHANGED <<enabled, notified, previous_states, needs_attention, requested, sent,
                   attempts, phase, sessions, env, all_sessions, probe, running>>

\* self._parse_session_file(session_file, project_dir.name) on the first file
ParseSessionFile ==
    /\ op = "init"
    /\ verdict' = parse_log(probe[1], NowMs)
    /\ op' = "parse_session_file"
    /\ UNCHANGED <<enabled, notified, previous_states, needs_attention, requested, sent,
                   attempts, phase, sessions, env, all_sessions, probe, running>>

NextParse == ScanLogs \/ ParseSessionFile

SpecParse == InitParse /\ [][NextParse]_vars

\* ------------------------------------------------------------ one path decoding

\* The names of the project directories a decoding is tried on.
DirNames(max_len) == SeqsUpTo(Words \cup {Dash}, max_len)

InitDecode ==
    /\ Constructed
    /\ env = NoEnv
    /\ all_sessions = <<>>
    /\ probe \in DirNames(MaxNameLen)
    /\ verdict = None

\* self._decode_project_path(project_dir_name)
DecodeProjectPath ==
    /\ op = "init"
    /\ verdict' = decode_project_path(probe)
    /\ op' = "decode_project_path"
    /\ UNCHANGED <<enabled, notified, previous_states, needs_attention, requested, sent,
                   attempts, phase, sessions, env, all_sessions, probe, running>>

NextDecode == DecodeProjectPath

SpecDecode == InitDecode /\ [][NextDecode]_vars

\* ------------------------------------------------------------ one status inference

InitStatus ==
    /\ Constructed
    /\ env = NoEnv
    /\ all_sessions = <<>>
    /\ probe \in Probes
    /\ verdict = None

\* self._determine_activity_status(session) for a session with a matched process
DetermineStatus ==
    /\ op = "init"
    /\ verdict' = determine_activity_status(probe.log, probe.debug,
                                            probe.last_message_type)
    /\ op' = "determine_activity_status"
    /\ UNCHANGED <<enabled, notified, previous_states, needs_attention, requested, sent,
                   attempts, phase, sessions, env, all_sessions, probe, running>>

NextStatus == DetermineStatus

SpecStatus == InitStatus /\ [][NextStatus]_vars

\* ------------------------------------------------------------ claims on the tracker and dispatcher

IdsOf(snapshot) == {snapshot[i].session_id : i \in DOMAIN snapshot}

Entry(sid, status) == [session_id |-> sid, status |-> status]

\* The operations that end in state_tracker.update.
UpdateOps == {"update", "refresh"}

\* C1: between two clear_for_session of an id (or since the dispatcher was
\* created) at most one delivery is attempted for each (session id, event)
\* pair, whatever update, notify, toggle and test calls happen; a BUSY -> IDLE
\* tick of a lone session delivers NEEDS_INPUT when enabled and not yet
\* delivered, and a following IDLE -> IDLE tick delivers nothing.
C1_AtMostOncePerPair ==
    [][ /\ \A k \in Keys : attempts'[k] <= 1
        /\ \A sid \in SessionIds :
             (op' \in UpdateOps /\ sessions' = <<Entry(sid, IDLE)>>) =>
                 /\ (Get(previous_states, sid) = BUSY /\ enabled
                         /\ <<sid, NEEDS_INPUT>> \notin notified)
                       => (sent' = << <<sid, NEEDS_INPUT>> >> /\ attempts'[<<sid, NEEDS_INPUT>>] = 1)
                 /\ Get(previous_states, sid) = IDLE
                       => (sent' = <<>> /\ requested' = <<>>)
      ]_vars

\* C1's case: NEEDS_INPUT was delivered once for a session and a later tick
\* that finds it still IDLE requested and delivered nothing.
C1_Witness ==
    \E sid \in SessionIds :
        /\ op = "update" /\ enabled
        /\ sessions = <<Entry(sid, IDLE)>>
        /\ attempts[<<sid, NEEDS_INPUT>>] = 1
        /\ sid \in needs_attention
        /\ requested = <<>> /\ sent = <<>>

RECURSIVE ExpectedRequests(_, _, _)
\* The notify calls the transition table asks for, entry by entry, with prev the
\* status the previous update recorded.
ExpectedRequests(before, snapshot, i) ==
    IF i > Len(snapshot) THEN <<>>
    ELSE LET s == snapshot[i]
             prev == Get(before, s.session_id)
             r == IF prev = BUSY /\ s.status = DONE THEN << <<s.session_id, SESSION_COMPLETED>> >>
                  ELSE IF prev = BUSY /\ s.status = IDLE THEN << <<s.session_id, NEEDS_INPUT>> >>
                  ELSE <<>>
         IN  r \o ExpectedRequests(before, snapshot, i + 1)

\* C2: update requests SESSION_COMPLETED exactly for BUSY -> DONE and
\* NEEDS_INPUT exactly for BUSY -> IDLE, prev being the status the previous
\* update recorded for the id, and afterwards the recorded status of every
\* session of the snapshot is its current status.
C2_TransitionTable ==
    [][ op' \in UpdateOps =>
          /\ requested' = ExpectedRequests(previous_states, sessions', 1)
          /\ \A i \in DOMAIN sessions' :
                 Get(previous_states', sessions'[i].session_id) = sessions'[i].status
      ]_vars

RECURSIVE RequestsPerEntry(_, _, _)
\* The same table with prev the status recorded when the entry is reached.
RequestsPerEntry(before, snapshot, i) ==
    IF i > Len(snapshot) THEN <<>>
    ELSE LET s == snapshot[i]
             prev == PrevAt(before, snapshot, i)
             r == IF prev = BUSY /\ s.status = DONE THEN << <<s.session_id, SESSION_COMPLETED>> >>
                  ELSE IF prev = BUSY /\ s.status = IDLE THEN << <<s.session_id, NEEDS_INPUT>> >>
                  ELSE <<>>
         IN  r \o RequestsPerEntry(before, snapshot, i + 1)

\* What update does hold to: the table entry by entry, prev being the status
\* recorded when the entry is reached, and the last entry of an id recorded.
TransitionTablePerEntry ==
    [][ op' \in UpdateOps =>
          /\ requested' = RequestsPerEntry(previous_states, sessions', 1)
          /\ \A i \in DOMAIN sessions' :
                 (\A j \in DOMAIN sessions' :
                      sessions'[j].session_id = sessions'[i].session_id => j <= i)
                 => Get(previous_states', sessions'[i].session_id) = sessions'[i].status
      ]_vars

\* C4: an id that had NEEDS_INPUT delivered, was then absent from a snapshot
\* and reappeared BUSY gets NEEDS_INPUT delivered again on its next
\* BUSY -> IDLE transition, notifications being enabled throughout.
C4_FreshAlertAfterForgetting ==
    [][ \A sid \in SessionIds :
          (op' \in UpdateOps /\ enabled /\ phase[sid] = "back"
              /\ FirstStatus(sessions', sid) = IDLE)
          => <<sid, NEEDS_INPUT>> \in Range(sent')
      ]_vars

\* C4's case: the second delivery has happened.
C4_Witness ==
    \E sid \in SessionIds :
        /\ phase[sid] = "realerted"
        /\ <<sid, NEEDS_INPUT>> \in Range(sent)
        /\ Get(previous_states, sid) = IDLE

\* C5: after update the previous-status map is keyed by exactly the ids of the
\* snapshot just passed, and the attention set and the dedup set hold no id
\* outside it.
C5_GarbageCollected ==
    /\ DOMAIN previous_states = IdsOf(sessions)
    /\ needs_attention \subseteq IdsOf(sessions)
    /\ {k[1] : k \in notified} \subseteq IdsOf(sessions)

\* C5's case: an alerted id vanished and its entries went, while another
\* id's entries stayed.
C5_Witness ==
    \E sid \in SessionIds, other \in SessionIds :
        /\ op = "update"
        /\ phase[sid] = "forgotten"
        /\ sid \notin IdsOf(sessions)
        /\ other \in needs_attention
        /\ <<other, NEEDS_INPUT>> \in notified

\* C6: an id needs attention only while its recorded status is IDLE: the flag is
\* cleared by every update that finds the session BUSY or DONE.
C6_AttentionImpliesIdle ==
    \A sid \in SessionIds :
        session_needs_attention(sid) => Get(previous_states, sid) = IDLE

\* C7: with the enabled flag off no (session id, event) pair is delivered;
\* toggle delivers nothing and leaves the dedup set alone; and an update
\* delivers a pair only for a qualifying transition it observes itself, so a
\* transition missed while the flag was off is never delivered later.
C7_NothingWhileDisabled ==
    [][ /\ ~enabled => Range(sent') \cap Keys = {}
        /\ op' = "toggle" => (sent' = <<>> /\ notified' = notified)
        /\ op' \in UpdateOps =>
             \A k \in Range(sent') \cap Keys :
                 \E i \in DOMAIN sessions' :
                     /\ sessions'[i].session_id = k[1]
                     /\ PrevAt(previous_states, sessions', i) = BUSY
                     /\ sessions'[i].status = (IF k[2] = NEEDS_INPUT THEN IDLE ELSE DONE)
      ]_vars

\* C7's case: a BUSY -> IDLE transition was missed while the flag was off (the
\* flag of attention is set, the pair is not recorded), the flag is on again
\* and an update that finds the session still IDLE delivered nothing.
C7_Witness ==
    \E sid \in SessionIds :
        /\ enabled /\ op = "update"
        /\ sessions = <<Entry(sid, IDLE)>>
        /\ sid \in needs_attention
        /\ <<sid, NEEDS_INPUT>> \notin notified
        /\ requested = <<>> /\ sent = <<>>

\* ------------------------------------------------------------ claims on the monitor and the registry

\* C3: a session recorded BUSY that the next tick's registry list reports DONE
\* has SESSION_COMPLETED requested by that tick, and delivered when
\* notifications are enabled and the pair was not delivered before.
C3_CompletionAlert ==
    [][ \A sid \in SessionIds :
          (/\ op' = "refresh"
           /\ Get(previous_states, sid) = BUSY
           /\ \E i \in DOMAIN all_sessions' : all_sessions'[i].session_id = sid
           /\ \A i \in DOMAIN all_sessions' :
                  all_sessions'[i].session_id = sid => all_sessions'[i].status = DONE)
          => /\ <<sid, SESSION_COMPLETED>> \in Range(requested')
             /\ (enabled /\ <<sid, SESSION_COMPLETED>> \notin notified)
                   => <<sid, SESSION_COMPLETED>> \in Range(sent')
      ]_vars

\* Whether an entry of the process table lies in a session's cwd or project path.
HasProcess(e, s) ==
    \E j \in DOMAIN e.running_processes :
        \/ e.running_processes[j][1] = s.cwd
        \/ e.running_processes[j][1] = s.project_path

\* C8: in the list get_sessions returns a session is DONE exactly when it has
\* no pid, and has no pid exactly when no process table entry lies in its cwd
\* or its decoded project path.
C8_DoneIffNoProcess ==
    op = "get_sessions" =>
        \A i \in DOMAIN all_sessions :
            LET s == all_sessions[i]
            IN  /\ s.status = DONE <=> s.pid = NonePid
                /\ s.pid = NonePid <=> ~HasProcess(env, s)

\* C8's case: the list holds a DONE session although processes run, and a live
\* session matched by its project path alone.
C8_Witness ==
    /\ op = "get_sessions"
    /\ env.running_processes # <<>>
    /\ \E i \in DOMAIN all_sessions :
           all_sessions[i].status = DONE /\ all_sessions[i].pid = NonePid
    /\ \E i \in DOMAIN all_sessions :
           LET s == all_sessions[i]
           IN  /\ s.pid # NonePid /\ s.status # DONE
               /\ s.cwd # s.project_path
               /\ \A j \in DOMAIN env.running_processes : env.running_processes[j][1] # s.cwd

\* C9: the list get_sessions returns holds no two sessions with one pid and no
\* two DONE sessions with one project name, and the pools do not touch: every
\* pid matched by some scanned session and every project name of some DONE
\* scanned session has its survivor.
C9_Deduplicated ==
    op = "get_sessions" =>
        /\ \A i, j \in DOMAIN all_sessions :
               i # j =>
                 /\ ~(all_sessions[i].pid # NonePid /\ all_sessions[i].pid = all_sessions[j].pid)
                 /\ ~(/\ all_sessions[i].pid = NonePid /\ all_sessions[j].pid = NonePid
                      /\ all_sessions[i].project_name = all_sessions[j].project_name)
        /\ \A k \in DOMAIN merged_sessions(env) :
               LET m == merged_sessions(env)[k]
               IN  \E i \in DOMAIN all_sessions :
                       IF m.pid # NonePid
                       THEN all_sessions[i].pid = m.pid
                       ELSE /\ all_sessions[i].pid = NonePid
                            /\ all_sessions[i].project_name = m.project_name

\* C9's case: a duplicate was dropped, and a DONE session survives beside a
\* live session of the same project name that is listed before it.
C9_Witness ==
    /\ op = "get_sessions"
    /\ Len(all_sessions) < Len(merged_sessions(env))
    /\ \E i, j \in DOMAIN all_sessions :
           /\ i < j
           /\ all_sessions[i].pid # NonePid
           /\ all_sessions[j].pid = NonePid
           /\ all_sessions[i].project_name = all_sessions[j].project_name

\* The log file was modified less than 30 s ago.
LogFresh(log) == ~log.raises /\ log.age < BusyThreshold

\* The debug file exists and was modified less than 30 s ago.
DebugFresh(debug) == debug.exists /\ ~debug.raises /\ debug.age < BusyThreshold

\* C10: for a session with a matched process the status is BUSY when the log
\* file is fresh, whatever the debug file and the last record; else BUSY when
\* the debug file is fresh; else BUSY when the last record is the user's; and
\* IDLE exactly when all three rules fail.
C10_StatusChain ==
    op = "determine_activity_status" =>
        /\ verdict \in {BUSY, IDLE}
        /\ LogFresh(probe.log) => verdict = BUSY
        /\ DebugFresh(probe.debug) => verdict = BUSY
        /\ probe.last_message_type = "user" => verdict = BUSY
        /\ verdict = IDLE <=>
             (/\ ~LogFresh(probe.log) /\ ~DebugFresh(probe.debug)
              /\ probe.last_message_type # "user")

\* C10's case: log file fresh, last record the assistant's, no debug file: BUSY.
C10_Witness ==
    /\ op = "determine_activity_status"
    /\ LogFresh(probe.log)
    /\ probe.last_message_type = "assistant"
    /\ probe.debug = DebugAbsent
    /\ verdict = BUSY

\* ------------------------------------------------------------ claims on the event loop

\* C11: no two refresh passes overlap: at most one pass is outstanding, and
\* while one is outstanding the only step taken is its own update, so that no
\* pass starts, nothing is rendered and toggle does not run in the middle of it.
C11_PassesSerialized ==
    [][ /\ Len(running') <= 1
        /\ running # <<>> => (op' = "refresh" /\ running' = <<>>)
      ]_vars

\* C11's case: a pass of a later tick is outstanding, its scan done and its
\* update not, over recorded tracker state.
C11_Witness ==
    /\ running # <<>>
    /\ op = "get_sessions"
    /\ previous_states # <<>>
    /\ needs_attention # {}

\* ------------------------------------------------------------ claims on the process scan

\* The pids of the claude lines whose lsof call returned an absolute cwd.
Resolvable(ps, lsof) ==
    {pid \in Range(claude_pids(ps.lines, 1)) :
        /\ lsof[pid].ending = Returned
        /\ lsof[pid].output.has_cwd /\ lsof[pid].output.absolute}

\* C12: scan_claude_processes never fails: it returns the empty mapping when
\* ps ends with an error or cannot be run, and when lsof fails for a process in
\* whatever way that process is skipped and every other claude process whose
\* working directory resolves is in the mapping.
C12_ScanNeverFails ==
    op = "scan_claude_processes" =>
        /\ ~verdict.raised
        /\ probe.ps.ending # Returned => verdict.result = <<>>
        /\ probe.ps.ending = Returned =>
              \A pid \in Resolvable(probe.ps, probe.lsof) :
                  \E j \in DOMAIN verdict.result :
                      verdict.result[j][1] = probe.lsof[pid].output.path

\* ------------------------------------------------------------ claims on the log scan

\* A log file every line of which is a record object with a well-shaped message.
WellFormed(file) ==
    /\ file.readable
    /\ \E i \in DOMAIN file.lines : file.lines[i].type \in {"user", "assistant"}
    /\ \A i \in DOMAIN file.lines :
           /\ file.lines[i].json = "object"
           /\ file.lines[i].message.shape \in {"missing", "blocks"}

\* C13: log scanning is never fatal: whatever the lines of a log file (no
\* JSON, JSON that is no record object, records with missing or wrongly shaped
\* fields) and for unreadable files, the scan returns a list, and the list holds
\* the session of every well-formed log file.
C13_ScanNeverFatal ==
    op = "get_active_sessions" =>
        /\ verdict.error = NoError
        /\ \A i \in DOMAIN probe :
               WellFormed(probe[i]) =>
                   \E j \in DOMAIN verdict.sessions : verdict.sessions[j].file = i

\* ------------------------------------------------------------ claims on the path decoding

\* The paths a directory name is the dash-encoded form of: each dash of the
\* name stood for itself or for a separator.
PathsEncodedAs(dir_name) ==
    {[i \in DOMAIN dir_name |-> IF i \in seps THEN Slash ELSE dir_name[i]] :
        seps \in SUBSET {i \in DOMAIN dir_name : dir_name[i] = Dash}}

\* An absolute path whose segments up to and including the first "projects"
\* hold no dash, with exactly one non-empty segment after it.
MarkedPath(path) ==
    /\ path # <<>> /\ path[1] = Slash
    /\ LET segments == Split(Tail(path), Slash)
           found == {i \in DOMAIN segments : segments[i] = <<Marker>>}
       IN  /\ found # {}
           /\ LET k == CHOOSE i \in found : \A j \in found : i <= j
              IN  /\ \A i \in 1..k : \A j \in DOMAIN segments[i] : segments[i][j] # Dash
                  /\ Len(segments) = k + 1
                  /\ segments[k + 1] # <<>>

\* The dash-split parts of an encoded name hold no marker, or nothing after it.
MarkerUnusable(dir_name) ==
    LET parts == Split(Tail(dir_name), Dash)
        found == {i \in DOMAIN parts : parts[i] = <<Marker>>}
    IN  found = {} \/ (CHOOSE i \in found : \A j \in found : i <= j) = Len(parts)

\* C14: decoding the dash-encoded form of a path with a dash-free prefix up to
\* the first "projects" segment and one non-empty name segment after it gives
\* the path back; without a marker, or with nothing after it, the result is the
\* encoded name with every dash replaced by a separator.
C14_DecodeRoundTrip ==
    op = "decode_project_path" =>
        /\ \A path \in PathsEncodedAs(probe) : MarkedPath(path) => verdict = path
        /\ (probe # <<>> /\ probe[1] = Dash /\ MarkerUnusable(probe))
              => verdict = Replace(probe, Dash, Slash)

\* C14's case: /u/projects/u-projects, a name with dashes and the marker
\* word, comes back from its encoded form.
C14_Witness ==
    /\ op = "decode_project_path"
    /\ probe = <<Dash, "u", Dash, Marker, Dash, "u", Dash, Marker>>
    /\ verdict = <<Slash, "u", Slash, Marker, Slash, "u", Dash, Marker>>
    /\ MarkedPath(verdict)

\* ------------------------------------------------------------ claims on the dispatcher and the tracker

\* C15: test_notification attempts exactly one delivery whatever the dedup set
\* and the enabled flag hold, requests nothing through notify, and leaves the
\* dedup set, the enabled flag and the tracker's state as they were.
C15_TestBypassesDedup ==
    [][ op' = "test" =>
          /\ sent' = <<TestMessage>>
          /\ requested' = <<>>
          /\ notified' = notified
          /\ enabled' = enabled
          /\ previous_states' = previous_states
          /\ needs_attention' = needs_attention
          /\ attempts' = attempts
      ]_vars

\* C15's case: a test delivered with notifications disabled, pairs in the
\* dedup set and a session flagged.
C15_Witness ==
    /\ op = "test"
    /\ ~enabled
    /\ notified # {}
    /\ needs_attention # {}
    /\ sent = <<TestMessage>>

\* ------------------------------------------------------------ claims on the parsed session

\* C16: the log of the two records {user, 1000} and {assistant, 5000, text
\* "Done."} gives a session with status DONE, duration 4.0 s (4000 ms) and
\* summary "Done".
C16_TwoRecordScenario ==
    (op = "parse_session_file" /\ probe[1] = TwoRecordLog) =>
        /\ verdict.error = NoError /\ verdict.found
        /\ verdict.session.status = DONE
        /\ verdict.session.duration = 4000
        /\ verdict.session.summary = <<"D", "o", "n", "e">>

\* C16 as amended: the same log gives status DONE, duration 4.0 s (4000 ms)
\* and the summary "Done.", the text of the block with its full stop.
C16_TwoRecordScenarioAmended ==
    (op = "parse_session_file" /\ probe[1] = TwoRecordLog) =>
        /\ verdict.error = NoError /\ verdict.found
        /\ verdict.session.status = DONE
        /\ verdict.session.start_time = 1000
        /\ verdict.session.last_activity = 5000
        /\ verdict.session.duration = 4000
        /\ verdict.session.summary = TextDone

\* C16's case: the two-record log has been parsed into a session.
C16_Witness ==
    /\ op = "parse_session_file"
    /\ probe[1] = TwoRecordLog
    /\ verdict.found
    /\ verdict.session.last_message_type = "assistant"

\* ------------------------------------------------------------ claims on the merge and the order

\* The pid of the process table's entry for a path, or None.
PidAt(running_processes, path) ==
    IF \E j \in DOMAIN running_processes : running_processes[j][1] = path
    THEN running_processes[CHOOSE j \in DOMAIN running_processes :
                               running_processes[j][1] = path][2]
    ELSE NonePid

\* C17: a scanned session is attached to the pid of the entry whose directory
\* is its cwd when there is one, and to the pid of the entry for its decoded
\* project path only when no entry is for the cwd, whatever the order of the
\* process table.
C17_CwdFirst ==
    op = "get_sessions" =>
        \A k \in DOMAIN merged_sessions(env) :
            LET s == merged_sessions(env)[k]
                by_cwd == PidAt(env.running_processes, s.cwd)
                by_project == PidAt(env.running_processes, s.project_path)
            IN  s.pid = IF by_cwd # NonePid THEN by_cwd ELSE by_project

\* Whether two sessions fall into one pool of the deduplication: the same pid,
\* or no pid and the same display name.
SamePool(a, b) ==
    IF a.pid # NonePid THEN b.pid = a.pid
    ELSE b.pid = NonePid /\ b.project_name = a.project_name

\* C18: the list get_sessions returns is ordered by last activity, latest
\* first, and the survivor of every pid and of every DONE display name has the
\* latest last activity among the scanned sessions of that pid or name.
C18_SortedMostRecentKept ==
    op = "get_sessions" =>
        /\ \A i, j \in DOMAIN all_sessions :
               i < j => all_sessions[i].last_activity >= all_sessions[j].last_activity
        /\ \A k \in DOMAIN merged_sessions(env) :
               LET m == merged_sessions(env)[k]
               IN  \E i \in DOMAIN all_sessions :
                       /\ SamePool(m, all_sessions[i])
                       /\ all_sessions[i].last_activity >= m.last_activity

\* C18's case: f1 is scanned before f2, both are matched to one pid, f2 has
\* the later activity: f2 survives, f1 is dropped, and the list holds sessions
\* of different last activity.
C18_Witness ==
    /\ op = "get_sessions"
    /\ env.order = <<"f1", "f2", "f3">>
    /\ env.files["f1"].last_activity < env.files["f2"].last_activity
    /\ \E i \in DOMAIN all_sessions :
           /\ all_sessions[i].session_file = "f2"
           /\ all_sessions[i].pid # NonePid
           /\ \E k \in DOMAIN merged_sessions(env) :
                  /\ merged_sessions(env)[k].session_file = "f1"
                  /\ merged_sessions(env)[k].pid = all_sessions[i].pid
    /\ \A i \in DOMAIN all_sessions : all_sessions[i].session_file # "f1"
    /\ \E i, j \in DOMAIN all_sessions :
           all_sessions[i].last_activity > all_sessions[j].last_activity

\* C19: session ids are unique within one snapshot: no two sessions of the
\* list get_sessions returns, and so no two of the list handed to update, have
\* one session id, and no update takes a transition from one entry of its
\* snapshot to another.
C19_UniqueIds ==
    op \in {"get_sessions", "refresh"} =>
        /\ \A i, j \in DOMAIN all_sessions :
               i # j => all_sessions[i].session_id # all_sessions[j].session_id
        /\ \A i, j \in DOMAIN sessions :
               i # j => sessions[i].session_id # sessions[j].session_id

\* Entry i is the last entry its snapshot holds for its id.
LastOfId(snapshot, i) ==
    \A j \in DOMAIN snapshot : snapshot[j].session_id = snapshot[i].session_id => j <= i

\* C20: the attention flag does not depend on the delivery of the alert: an
\* update that observes BUSY -> IDLE for a session sets its flag, also when
\* NEEDS_INPUT is suppressed because notifications are disabled or the pair was
\* delivered before, and then delivers nothing for the pair.
C20_FlagWithoutDelivery ==
    [][ op' \in UpdateOps =>
          \A i \in DOMAIN sessions' :
              LET sid == sessions'[i].session_id
              IN  (/\ LastOfId(sessions', i)
                   /\ PrevAt(previous_states, sessions', i) = BUSY
                   /\ sessions'[i].status = IDLE)
                  => /\ sid \in needs_attention'
                     /\ <<sid, NEEDS_INPUT>> \in Range(requested')
                     /\ (~enabled \/ <<sid, NEEDS_INPUT>> \in notified)
                            => <<sid, NEEDS_INPUT>> \notin Range(sent')
      ]_vars

\* C20's case: the second IDLE of BUSY, IDLE, BUSY, IDLE: the alert is
\* requested with notifications enabled and not delivered, and the flag is set.
C20_Witness ==
    \E sid \in SessionIds :
        /\ op = "update" /\ enabled
        /\ sessions = <<Entry(sid, IDLE)>>
        /\ requested = << <<sid, NEEDS_INPUT>> >>
        /\ sent = <<>>
        /\ sid \in needs_attention

\* ------------------------------------------------------------ claims on failed deliveries

\* C21: a failed delivery never raises and is never retried: a notify that
\* attempts a delivery records the pair whatever the notifier does and returns,
\* and a notify for a recorded pair attempts nothing, so that no pair is
\* attempted twice until its id is forgotten.
C21_FailedDeliveryNotRetried ==
    [][ op' = "notify" =>
          /\ ~verdict'.raised
          /\ \A key \in Range(requested') :
                 /\ (enabled /\ key \notin notified) =>
                        /\ sent' = <<key>>
                        /\ verdict'.attempted /\ verdict'.what = key
                        /\ key \in notified'
                 /\ key \in notified =>
                        /\ sent' = <<>>
                        /\ verdict' = verdict
                        /\ notified' = notified
          /\ \A key \in Keys : attempts'[key] <= 1
      ]_vars

\* C21's case: the delivery of a pair failed (neither command installed), the
\* pair is recorded, and a later notify for it with notifications enabled was
\* suppressed.
C21_Witness ==
    \E key \in Keys :
        /\ op = "notify" /\ enabled
        /\ requested = <<key>>
        /\ sent = <<>>
        /\ key \in notified
        /\ verdict.attempted /\ verdict.what = key
        /\ ~verdict.delivered
        /\ verdict.ran = <<"terminal-notifier", "osascript">>

\* ------------------------------------------------------------ claims on the persistence of attention

\* C22: a set attention flag stays set after every update that finds the
\* session IDLE, and is cleared only by an update in which the session is BUSY,
\* is DONE after BUSY or is absent; toggle and test_notification leave every
\* flag as it is.
C22_AttentionPersists ==
    [][ \A sid \in needs_attention :
          /\ (op' \in UpdateOps /\ StatusesOf(sessions', sid) = {IDLE})
                => sid \in needs_attention'
          /\ sid \notin needs_attention' =>
                /\ op' \in UpdateOps
                /\ \/ StatusesOf(sessions', sid) = {}
                   \/ BUSY \in StatusesOf(sessions', sid)
                   \/ \E i \in DOMAIN sessions' :
                          /\ sessions'[i].session_id = sid
                          /\ sessions'[i].status = DONE
                          /\ PrevAt(previous_states, sessions', i) = BUSY
          /\ op' \in {"toggle", "test"} => needs_attention' = needs_attention
      ]_vars

\* C22's case: a session flagged and alerted at its BUSY -> IDLE transition is
\* found IDLE again by a later update, with no transition, and is still flagged.
C22_Witness ==
    \E sid \in SessionIds :
        /\ op = "update"
        /\ sessions = <<Entry(sid, IDLE)>>
        /\ requested = <<>>
        /\ sid \in needs_attention
        /\ <<sid, NEEDS_INPUT>> \in notified
        /\ phase[sid] = "alerted"

====
